---- MODULE Spec2Model ----
(***************************************************************************)
(* Model of src/damage_calculator.py: the DamageCalculator class, its      *)
(* damage_log and its two operations calculate_damage and calculate_dot.   *)
(*                                                                         *)
(* Numbers.  The program computes on Python floats.  A finite float is     *)
(* modelled by the exact rational it denotes, a record [num, den] in       *)
(* lowest terms with den > 0; the non-finite floats are the strings        *)
(* "inf", "-inf" and "nan".  Arithmetic is exact, so the rounding error of *)
(* a single float operation is not modelled; the inputs below are chosen   *)
(* dyadic where the result of round(x, 2) depends on the exact value.      *)
(***************************************************************************)
EXTENDS Integers, Sequences, FiniteSets, TLC

VARIABLES attacker, defender, damage_log, call

vars == <<attacker, defender, damage_log, call>>

----------------------------------------------------------------------------
(* Exact rational arithmetic standing for the float operators of the code. *)

Abs(i) == IF i < 0 THEN -i ELSE i

RECURSIVE Gcd(_, _)
Gcd(a, b) == IF b = 0 THEN a ELSE Gcd(b, a % b)

\* The rational n/d (d # 0) in lowest terms with a positive denominator.
Rat(n, d) ==
    LET g == Gcd(Abs(n), Abs(d))
        s == IF d < 0 THEN -1 ELSE 1
    IN  [num |-> s * (n \div g), den |-> s * (d \div g)]

Flt(i) == [num |-> i, den |-> 1]

Zero == Flt(0)

One == Flt(1)

Hundred == Flt(100)

\* x * y                                     (lines 51, 55, 68, 80, 111)
Mul(x, y) == Rat(x.num * y.num, x.den * y.den)

\* x + y                                     (lines 69, 75)
Add(x, y) == Rat(x.num * y.den + y.num * x.den, x.den * y.den)

\* x - y                                     (lines 68, 81)
Sub(x, y) == Rat(x.num * y.den - y.num * x.den, x.den * y.den)

\* x / y for y # 0                           (lines 75, 78)
Div(x, y) == Rat(x.num * y.den, x.den * y.num)

\* x < y                                     (line 54)
Lt(x, y) == x.num * y.den < y.num * x.den

\* x >= y                                    (line 74)
Ge(x, y) == x.num * y.den >= y.num * x.den

\* x == y and x <= y, for the statements about the results
Eq(x, y) == x.num * y.den = y.num * x.den

Le(x, y) == x.num * y.den <= y.num * x.den

\* max(0, x): Python's max returns its first argument unless a later one
\* is strictly greater.                      (line 81)
Max0(x) == IF Lt(Zero, x) THEN x ELSE Zero

\* round(x, 2): the multiple of 1/100 nearest to x, a tie going to the even
\* multiple (round-half-even on the exact value of the float).   (line 91)
Round2(x) ==
    LET n == x.num * 100
        q == n \div x.den
        r == n - q * x.den
        k == IF 2 * r < x.den THEN q
             ELSE IF 2 * r > x.den THEN q + 1
             ELSE IF q % 2 = 0 THEN q ELSE q + 1
    IN  Rat(k, 100)

----------------------------------------------------------------------------
(* class DamageType(Enum): a damage type is modelled by its .value.        *)

PHYSICAL == "physical"

MAGICAL == "magical"

TRUE_DAMAGE == "true"

FIRE == "fire"

ICE == "ice"

POISON == "poison"

DamageType == {PHYSICAL, MAGICAL, TRUE_DAMAGE, FIRE, ICE, POISON}

----------------------------------------------------------------------------
(* The inputs the callers draw from.                                       *)

\* Attacker(name, base_damage, crit_chance, crit_multiplier,
\* armor_penetration); no field is validated.
Attackers ==
    { [name |-> "Warrior", base_damage |-> Flt(100), crit_chance |-> Rat(1, 4),
       crit_multiplier |-> Rat(5, 2), armor_penetration |-> Rat(1, 5)],
      [name |-> "Rogue", base_damage |-> Rat(81, 8), crit_chance |-> One,
       crit_multiplier |-> Flt(3), armor_penetration |-> Zero],
      [name |-> "Brute", base_damage |-> Flt(10), crit_chance |-> Rat(3, 2),
       crit_multiplier |-> Rat(1, 2), armor_penetration |-> Rat(1, 4)],
      [name |-> "Imp", base_damage |-> Flt(-5), crit_chance |-> Rat(-1, 2),
       crit_multiplier |-> Rat(3, 2), armor_penetration |-> One] }

\* Defender(name, armor, resistances); __post_init__ turns a missing
\* resistances into the empty dict.
Defenders ==
    { [name |-> "Goblin", armor |-> Flt(50),
       resistances |-> (FIRE :> Flt(30)) @@ (ICE :> Flt(-20))],
      [name |-> "Dummy", armor |-> Zero, resistances |-> << >>],
      [name |-> "Golem", armor |-> Flt(100),
       resistances |-> (MAGICAL :> Flt(100)) @@ (FIRE :> Zero)
                       @@ (POISON :> Flt(-100))],
      [name |-> "Wraith", armor |-> Flt(-50),
       resistances |-> (PHYSICAL :> Flt(50)) @@ (MAGICAL :> Flt(-20))
                       @@ (ICE :> Flt(-150)) @@ (POISON :> Flt(20))] }

SkillMultipliers == {One, Flt(-1)}

\* random.random() returns a float in [0, 1).
RandomDraws == {Zero, Rat(1, 4), Rat(99, 100)}

PosInf == [num |-> 1, den |-> 0]

NegInf == [num |-> -1, den |-> 0]

NaN == [num |-> 0, den |-> 0]

IsFinite(x) == x.den # 0

TickDamages == {Flt(15)}

Durations == {Flt(9), PosInf, NaN}

TickRates == {Zero, Flt(2), Flt(-2)}

\* The calls modelled stop once damage_log holds MaxLog records.
MaxLog == 2

----------------------------------------------------------------------------
(* DamageCalculator.calculate_damage                                       *)

\* base = attacker.base_damage * skill_multiplier
BaseDamage(att, skill_multiplier) == Mul(att.base_damage, skill_multiplier)

\* Mutant of IsCrit: the comparison made inclusive.
IsCrit_Inclusive(draw, att) == Le(draw, att.crit_chance)

\* is_crit = random.random() < attacker.crit_chance
IsCrit(draw, att) == Lt(draw, att.crit_chance)

\* Mutant of CritDamage: the multiplier divides.
CritDamage_Divides(base, att, is_crit) ==
    IF is_crit THEN Div(base, att.crit_multiplier) ELSE base

\* crit_damage = base * attacker.crit_multiplier if is_crit else base
CritDamage(base, att, is_crit) ==
    IF is_crit THEN Mul(base, att.crit_multiplier) ELSE base

\* resistance = defender.resistances.get(damage_type, 0)
Resistance(def, damage_type) ==
    IF damage_type \in DOMAIN def.resistances
    THEN def.resistances[damage_type]
    ELSE Zero

\* Mutant of EffectiveArmor: the penetration is ignored.
EffectiveArmor_NoPenetration(att, def) == def.armor

\* effective_armor = defender.armor * (1 - attacker.armor_penetration)
EffectiveArmor(att, def) == Mul(def.armor, Sub(One, att.armor_penetration))

\* total_reduction: armor plus resistance for physical damage, resistance
\* alone for the other types
TotalReduction(att, def, damage_type) ==
    IF damage_type = PHYSICAL
    THEN Add(EffectiveArmor(att, def), Resistance(def, damage_type))
    ELSE Resistance(def, damage_type)

\* Mutant of ReductionPercent: the share of the damage that remains is
\* returned in place of the share that is removed.
ReductionPercent_Remaining(total_reduction) ==
    IF Ge(total_reduction, Zero)
    THEN Div(Hundred, Add(total_reduction, Hundred))
    ELSE Div(total_reduction, Hundred)

\* reduction_percent: the diminishing-returns formula, linear below zero
ReductionPercent(total_reduction) ==
    IF Ge(total_reduction, Zero)
    THEN Div(total_reduction, Add(total_reduction, Hundred))
    ELSE Div(total_reduction, Hundred)

\* reduction = crit_damage * reduction_percent
Reduction(crit_damage, reduction_percent) == Mul(crit_damage, reduction_percent)

\* Mutant of MitigatedDamage: the reduction is added.
MitigatedDamage_Adds(crit_damage, reduction) == Max0(Add(crit_damage, reduction))

\* final_damage = max(0, crit_damage - reduction)
MitigatedDamage(crit_damage, reduction) == Max0(Sub(crit_damage, reduction))

\* Mutant of Mitigation: true damage is mitigated like physical damage.
Mitigation_TrueMitigated(att, def, damage_type, crit_damage) ==
    LET dt == IF damage_type = TRUE_DAMAGE THEN PHYSICAL ELSE damage_type
        reduction ==
            Reduction(crit_damage, ReductionPercent(TotalReduction(att, def, dt)))
    IN  [final_damage |-> MitigatedDamage(crit_damage, reduction),
         reduction |-> reduction]

\* The if/else on the damage type: true damage ignores all defenses.
Mitigation(att, def, damage_type, crit_damage) ==
    IF damage_type = TRUE_DAMAGE
    THEN [final_damage |-> crit_damage, reduction |-> Zero]
    ELSE LET reduction ==
                 Reduction(crit_damage,
                           ReductionPercent(TotalReduction(att, def, damage_type)))
         IN  [final_damage |-> MitigatedDamage(crit_damage, reduction),
              reduction |-> reduction]

\* 'final_damage': round(final_damage, 2)
ReportedFinal(final_damage) == Round2(final_damage)

\* The dict calculate_damage builds and returns, for the draw random.random()
\* made.
DamageResult(att, def, damage_type, skill_multiplier, draw) ==
    LET base == BaseDamage(att, skill_multiplier)
        is_crit == IsCrit(draw, att)
        crit_damage == CritDamage(base, att, is_crit)
        m == Mitigation(att, def, damage_type, crit_damage)
    IN  [attacker |-> att.name,
         defender |-> def.name,
         base_damage |-> base,
         is_critical |-> is_crit,
         damage_after_crit |-> crit_damage,
         damage_type |-> damage_type,
         reduction |-> m.reduction,
         final_damage |-> ReportedFinal(m.final_damage)]

\* Mutant of LogAfterDamage: the record is inserted at the front.
LogAfterDamage_Prepend(log, result) == <<result>> \o log

\* self.damage_log.append(result)
LogAfterDamage(log, result) == Append(log, result)

\* One call calc.calculate_damage(attacker, defender, damage_type,
\* skill_multiplier); call records the arguments, the draw and what the call
\* returned.
CalculateDamage ==
    /\ Len(damage_log) < MaxLog
    /\ \E damage_type \in DamageType, skill_multiplier \in SkillMultipliers,
          draw \in RandomDraws :
          LET result == DamageResult(attacker, defender, damage_type,
                                     skill_multiplier, draw)
          IN  /\ damage_log' = LogAfterDamage(damage_log, result)
              /\ call' = [op |-> "calculate_damage",
                          damage_type |-> damage_type,
                          skill_multiplier |-> skill_multiplier,
                          draw |-> draw,
                          outcome |-> "returned",
                          result |-> result]
    /\ UNCHANGED <<attacker, defender>>

----------------------------------------------------------------------------
(* DamageCalculator.calculate_dot                                          *)

\* Mutant of FloatDiv: a division by zero yields an infinity or a NaN
\* (IEEE 754) instead of raising.
FloatDiv_IEEE(x, y) ==
    IF y = Zero
    THEN [raises |-> "",
          value |-> IF ~IsFinite(x) THEN x
                    ELSE IF x.num > 0 THEN PosInf
                    ELSE IF x.num < 0 THEN NegInf ELSE NaN]
    ELSE IF IsFinite(x) THEN [raises |-> "", value |-> Div(x, y)]
    ELSE [raises |-> "", value |-> x]

\* duration / tick_rate on floats, for a finite tick_rate: a zero divisor
\* raises ZeroDivisionError whatever the dividend; inf and nan propagate.
FloatDiv(x, y) ==
    IF y = Zero THEN [raises |-> "ZeroDivisionError", value |-> NaN]
    ELSE IF IsFinite(x) THEN [raises |-> "", value |-> Div(x, y)]
    ELSE IF x = NaN THEN [raises |-> "", value |-> NaN]
    ELSE [raises |-> "",
          value |-> IF Lt(y, Zero) THEN [x EXCEPT !.num = -x.num] ELSE x]

\* Mutant of Trunc: the floor.
Trunc_Floor(x) == x.num \div x.den

\* int(x) of a finite float: truncation toward zero.
Trunc(x) ==
    IF x.num >= 0 THEN x.num \div x.den ELSE -((-x.num) \div x.den)

\* int(x): OverflowError for an infinity, ValueError for nan.
ToInt(x) ==
    IF IsFinite(x) THEN [raises |-> "", value |-> Trunc(x)]
    ELSE IF x = NaN THEN [raises |-> "ValueError", value |-> 0]
    ELSE [raises |-> "OverflowError", value |-> 0]

\* num_ticks = int(duration / tick_rate)
NumTicks(duration, tick_rate) ==
    LET q == FloatDiv(duration, tick_rate)
    IN  IF q.raises # "" THEN [raises |-> q.raises, value |-> 0]
        ELSE ToInt(q.value)

\* The dict calculate_dot returns once num_ticks is known.
DotResult(base_tick_damage, duration, num_ticks) ==
    [tick_damage |-> base_tick_damage,
     num_ticks |-> num_ticks,
     total_damage |-> Mul(base_tick_damage, Flt(num_ticks)),
     duration |-> duration]

\* What a failed call leaves in place of a result.
NoResult == [tick_damage |-> NaN, num_ticks |-> 0, total_damage |-> NaN,
             duration |-> NaN]

\* One call calc.calculate_dot(base_tick_damage, duration, tick_rate): it
\* returns a dict or raises, and never touches damage_log.
CalculateDot ==
    /\ \E base_tick_damage \in TickDamages, duration \in Durations,
          tick_rate \in TickRates :
          LET n == NumTicks(duration, tick_rate)
          IN  call' = [op |-> "calculate_dot",
                       base_tick_damage |-> base_tick_damage,
                       duration |-> duration,
                       tick_rate |-> tick_rate,
                       outcome |-> IF n.raises = "" THEN "returned" ELSE n.raises,
                       result |-> IF n.raises = ""
                                  THEN DotResult(base_tick_damage, duration, n.value)
                                  ELSE NoResult]
    /\ UNCHANGED <<attacker, defender, damage_log>>

----------------------------------------------------------------------------
(* The caller creates one attacker and one defender; DamageCalculator()    *)
(* starts with an empty damage_log (__init__).                             *)

Init ==
    /\ attacker \in Attackers
    /\ defender \in Defenders
    /\ damage_log = << >>
    /\ call = [op |-> "__init__", outcome |-> "returned"]

Next == CalculateDamage \/ CalculateDot

Spec == Init /\ [][Next]_vars

----------------------------------------------------------------------------
(* What the claims speak of.                                               *)

IsDamageCall == call.op = "calculate_damage"

IsDotCall == call.op = "calculate_dot"

\* The mitigation formula as the specification states it, from the
\* arguments of a call.
RefResistance(def, damage_type) ==
    IF damage_type \in DOMAIN def.resistances
    THEN def.resistances[damage_type] ELSE Zero

RefTotalReduction(att, def, damage_type) ==
    IF damage_type = PHYSICAL
    THEN Add(Mul(def.armor, Sub(One, att.armor_penetration)),
             RefResistance(def, damage_type))
    ELSE RefResistance(def, damage_type)

RefFraction(t) ==
    IF t.num >= 0 THEN Div(t, Add(t, Hundred)) ELSE Div(t, Hundred)

RefFloor0(x) == IF x.num < 0 THEN Zero ELSE x

----------------------------------------------------------------------------
\* C1: every result calculate_damage returns, and so every record stored
\* in damage_log, has final_damage >= 0, whatever the stats, the damage
\* type (TRUE included) and the skill_multiplier (zero or negative included).
C1_FinalDamageNonNegative ==
    /\ IsDamageCall => call.result.final_damage.num >= 0
    /\ \A i \in 1..Len(damage_log) : damage_log[i].final_damage.num >= 0

----------------------------------------------------------------------------
\* C2, as stated: a call with damage_type = TRUE returns reduction == 0 and
\* final_damage == damage_after_crit.
C2_TrueDamageUnrounded ==
    (IsDamageCall /\ call.damage_type = TRUE_DAMAGE) =>
        /\ Eq(call.result.reduction, Zero)
        /\ Eq(call.result.final_damage, call.result.damage_after_crit)

\* C2, amended: a call with damage_type = TRUE returns reduction == 0 and
\* final_damage == round(damage_after_crit, 2), whatever the defender's
\* armor and resistances, the armor_penetration and the critical.
C2_TrueDamageRounded ==
    (IsDamageCall /\ call.damage_type = TRUE_DAMAGE) =>
        /\ Eq(call.result.reduction, Zero)
        /\ Eq(call.result.final_damage, Round2(call.result.damage_after_crit))

\* A critical TRUE call against a defender with armor and resistances,
\* whose damage_after_crit is no multiple of 1/100, so that the rounding acts.
C2_Witness ==
    /\ IsDamageCall /\ call.damage_type = TRUE_DAMAGE
    /\ call.result.is_critical
    /\ ~Eq(defender.armor, Zero) /\ DOMAIN defender.resistances # {}
    /\ ~Eq(call.result.final_damage, call.result.damage_after_crit)

----------------------------------------------------------------------------
\* C3, as stated: when a critical occurs and crit_multiplier >= 1, the
\* result has damage_after_crit >= base_damage, for every base_damage and
\* skill_multiplier.
C3_CritAtLeastBase_AnyBase ==
    (IsDamageCall /\ call.result.is_critical
       /\ Ge(attacker.crit_multiplier, One)) =>
        Ge(call.result.damage_after_crit, call.result.base_damage)

\* C3, amended: when a critical occurs, crit_multiplier >= 1 and the base
\* damage attacker.base_damage * skill_multiplier is >= 0, the result has
\* damage_after_crit >= base_damage.
C3_CritAtLeastBase ==
    (IsDamageCall /\ call.result.is_critical
       /\ Ge(attacker.crit_multiplier, One)
       /\ Ge(Mul(attacker.base_damage, call.skill_multiplier), Zero)) =>
        /\ Eq(call.result.base_damage,
              Mul(attacker.base_damage, call.skill_multiplier))
        /\ Ge(call.result.damage_after_crit, call.result.base_damage)

\* A critical by an attacker with crit_multiplier > 1 on a positive base.
C3_Witness ==
    /\ IsDamageCall /\ call.result.is_critical
    /\ Lt(One, attacker.crit_multiplier)
    /\ Lt(Zero, call.result.base_damage)
    /\ Lt(call.result.base_damage, call.result.damage_after_crit)

----------------------------------------------------------------------------
\* C4: the critical depends on the draw r in [0,1) only through
\* r < crit_chance; with crit_chance >= 1 every draw is a critical and
\* damage_after_crit = base * crit_multiplier; with crit_chance <= 0 no draw
\* is a critical and damage_after_crit = base.
C4_CritResolution ==
    IsDamageCall =>
        LET base == Mul(attacker.base_damage, call.skill_multiplier)
            r == call.draw
        IN  /\ call.result.is_critical <=>
                   r.num * attacker.crit_chance.den
                       < attacker.crit_chance.num * r.den
            /\ Ge(attacker.crit_chance, One) =>
                   /\ call.result.is_critical
                   /\ Eq(call.result.damage_after_crit,
                         Mul(base, attacker.crit_multiplier))
            /\ Le(attacker.crit_chance, Zero) =>
                   /\ ~call.result.is_critical
                   /\ Eq(call.result.damage_after_crit, base)

\* The draw 0 against crit_chance <= 0: not a critical.
C4_Witness ==
    /\ IsDamageCall /\ Eq(call.draw, Zero)
    /\ Le(attacker.crit_chance, Zero)
    /\ ~call.result.is_critical

----------------------------------------------------------------------------
\* C5, as stated: a non-TRUE call whose total_reduction is 0 returns
\* final_damage == damage_after_crit exactly and reduction == 0.
C5_NoReduction_Exact ==
    (IsDamageCall /\ call.damage_type # TRUE_DAMAGE
       /\ Eq(RefTotalReduction(attacker, defender, call.damage_type), Zero)) =>
        /\ Eq(call.result.reduction, Zero)
        /\ Eq(call.result.final_damage, call.result.damage_after_crit)

\* C5, amended: a non-TRUE call whose total_reduction is 0 returns
\* reduction == 0 and final_damage == round(max(0, damage_after_crit), 2),
\* for every attacker, skill_multiplier and crit outcome.
C5_NoReduction ==
    (IsDamageCall /\ call.damage_type # TRUE_DAMAGE
       /\ Eq(RefTotalReduction(attacker, defender, call.damage_type), Zero)) =>
        /\ Eq(call.result.reduction, Zero)
        /\ Eq(call.result.final_damage,
              Round2(RefFloor0(call.result.damage_after_crit)))

\* A physical call whose armor and resistance cancel to total_reduction 0,
\* with a positive damage_after_crit that the rounding changes.
C5_Witness ==
    /\ IsDamageCall /\ call.damage_type = PHYSICAL
    /\ ~Eq(defender.armor, Zero)
    /\ Eq(RefTotalReduction(attacker, defender, PHYSICAL), Zero)
    /\ Lt(Zero, call.result.damage_after_crit)
    /\ ~Eq(call.result.final_damage, call.result.damage_after_crit)

----------------------------------------------------------------------------
\* The resistances C6 compares.
ResistanceValues == {Zero, Rat(1, 2), Flt(30), Flt(100), Flt(1000)}

WithResistance(def, damage_type, r) ==
    [def EXCEPT !.resistances = (damage_type :> r) @@ @]

FinalWith(damage_type, r) ==
    DamageResult(attacker, WithResistance(defender, damage_type, r),
                 damage_type, call.skill_multiplier, call.draw).final_damage

\* C6: for a fixed attacker, damage type, skill_multiplier, crit outcome and
\* defender armor, and resistances 0 <= r1 <= r2 of the defender for that
\* type, final_damage with r2 is <= final_damage with r1 (PHYSICAL, where
\* the armor is added, included).  r1 and r2 range over ResistanceValues
\* and the resistance of the call made, whose final_damage is the one the
\* call returned.
C6_ResistanceMonotone ==
    IsDamageCall =>
        LET dt == call.damage_type
            own == RefResistance(defender, dt)
            rs == ResistanceValues \cup {own}
        IN  /\ Eq(FinalWith(dt, own), call.result.final_damage)
            /\ \A r1 \in rs, r2 \in rs :
                   (Ge(r1, Zero) /\ Le(r1, r2)) =>
                       Le(FinalWith(dt, r2), FinalWith(dt, r1))

\* A physical call against a defender with armor and a positive resistance
\* that a larger resistance strictly lowers.
C6_Witness ==
    /\ IsDamageCall /\ call.damage_type = PHYSICAL
    /\ ~Eq(defender.armor, Zero)
    /\ Lt(Zero, RefResistance(defender, PHYSICAL))
    /\ Lt(FinalWith(PHYSICAL, Flt(1000)), call.result.final_damage)

----------------------------------------------------------------------------
\* C7, as stated: a non-TRUE call returns reduction = damage_after_crit *
\* reduction_fraction and final_damage = max(0, damage_after_crit -
\* reduction); total_reduction = 100 gives final_damage = damage_after_crit
\* * 0.5; resistance -20 on a non-physical type gives damage_after_crit * 1.2.
C7_ReferenceFormula_Unrounded ==
    (IsDamageCall /\ call.damage_type # TRUE_DAMAGE) =>
        LET dt == call.damage_type
            t == RefTotalReduction(attacker, defender, dt)
            dac == call.result.damage_after_crit
            red == Mul(dac, RefFraction(t))
        IN  /\ Eq(call.result.reduction, red)
            /\ Eq(call.result.final_damage, RefFloor0(Sub(dac, red)))
            /\ Eq(t, Hundred) =>
                   Eq(call.result.final_damage, Mul(dac, Rat(1, 2)))
            /\ (dt # PHYSICAL /\ Eq(RefResistance(defender, dt), Flt(-20))) =>
                   Eq(call.result.final_damage, Mul(dac, Rat(6, 5)))

\* C7, amended: a non-TRUE call returns reduction = damage_after_crit *
\* reduction_fraction and final_damage = round(max(0, damage_after_crit -
\* reduction), 2), with total_reduction and reduction_fraction as the
\* reference formula gives them (armor and armor_penetration count for
\* PHYSICAL only); total_reduction = 100 gives final_damage =
\* round(max(0, damage_after_crit * 0.5), 2), and resistance -20 on a
\* non-physical type gives round(max(0, damage_after_crit * 1.2), 2).
C7_ReferenceFormula ==
    (IsDamageCall /\ call.damage_type # TRUE_DAMAGE) =>
        LET dt == call.damage_type
            t == RefTotalReduction(attacker, defender, dt)
            dac == call.result.damage_after_crit
            red == Mul(dac, RefFraction(t))
        IN  /\ Eq(call.result.reduction, red)
            /\ Eq(call.result.final_damage, Round2(RefFloor0(Sub(dac, red))))
            /\ Eq(t, Hundred) =>
                   Eq(call.result.final_damage,
                      Round2(RefFloor0(Mul(dac, Rat(1, 2)))))
            /\ (dt # PHYSICAL /\ Eq(RefResistance(defender, dt), Flt(-20))) =>
                   Eq(call.result.final_damage,
                      Round2(RefFloor0(Mul(dac, Rat(6, 5)))))

\* A physical call with armor, a penetration and a resistance whose
\* total_reduction is neither 0 nor 100.
C7_Witness ==
    /\ IsDamageCall /\ call.damage_type = PHYSICAL
    /\ Lt(Zero, attacker.armor_penetration)
    /\ Lt(attacker.armor_penetration, One)
    /\ ~Eq(defender.armor, Zero)
    /\ ~Eq(RefResistance(defender, PHYSICAL), Zero)
    /\ Lt(Zero, call.result.reduction)
    /\ Lt(Zero, call.result.final_damage)

----------------------------------------------------------------------------
----------------------------------------------------------------------------
\* C9: damage_log starts empty; each calculate_damage appends exactly the
\* record it returns at the end of damage_log and leaves the earlier
\* entries unchanged; each calculate_dot leaves damage_log unchanged.  So
\* damage_log holds the results of the calculate_damage calls in call order.
C9_LogFrame ==
    /\ damage_log = << >>
    /\ [][/\ IsDamageCall' =>
                /\ call'.outcome = "returned"
                /\ damage_log' = Append(damage_log, call'.result)
          /\ IsDotCall' => damage_log' = damage_log]_vars

\* Two different records in the log, in the order of their calls, and a
\* calculate_dot call made after them.
C9_Witness ==
    /\ Len(damage_log) >= 2
    /\ damage_log[1] # damage_log[2]
    /\ IsDotCall /\ call.outcome = "returned"

----------------------------------------------------------------------------
\* C10, as stated: calculate_dot fails only with tick_rate == 0, by a
\* division by zero, and calculate_damage never fails.
C10_OnlyZeroTickRateFails ==
    /\ IsDotCall =>
           /\ call.outcome # "returned" <=> Eq(call.tick_rate, Zero)
           /\ Eq(call.tick_rate, Zero) => call.outcome = "ZeroDivisionError"
    /\ IsDamageCall => call.outcome = "returned"

\* C10, amended: calculate_dot fails exactly when tick_rate == 0
\* (ZeroDivisionError) or the quotient duration / tick_rate is not finite
\* (OverflowError for an infinity, ValueError for a NaN); a failing call
\* returns no result and leaves damage_log unchanged; calculate_damage
\* never fails.
C10_FailureModes ==
    [][/\ IsDotCall' =>
            /\ damage_log' = damage_log
            /\ call'.outcome =
                   IF Eq(call'.tick_rate, Zero) THEN "ZeroDivisionError"
                   ELSE IF IsFinite(call'.duration) THEN "returned"
                   ELSE IF call'.duration = NaN THEN "ValueError"
                   ELSE "OverflowError"
            /\ call'.outcome # "returned" => call'.result = NoResult
       /\ IsDamageCall' => call'.outcome = "returned"]_vars

\* calculate_dot failing by a division by zero on a calculator whose
\* damage_log holds a record.
C10_Witness ==
    /\ IsDotCall /\ Eq(call.tick_rate, Zero)
    /\ call.outcome = "ZeroDivisionError"
    /\ Len(damage_log) > 0

====
